---------------------------- MODULE Spec2Model ----------------------------
(***************************************************************************)
(* Rate limiter of the Claude automation workflows                         *)
(* (.github/scripts/rate_limiter.py) and the three entry points that call  *)
(* it.  The ledger is the comment list of a tracking issue; every workflow *)
(* run is a short-lived process whose steps are delimited by its calls to  *)
(* the hosting platform.                                                   *)
(*                                                                         *)
(* A comment body is a sequence of tokens (strings).  The tokens "USAGE:", *)
(* " ", "|", "-", "+" and the ten digits stand for themselves; a date key, *)
(* a login and an operation name are one token each (none of them holds a  *)
(* pipe, a colon or white space).                                          *)
(***************************************************************************)
EXTENDS Integers, Sequences, FiniteSets, TLC

----------------------------------------------------------------------------
(* Bounds of the model *)

\* number of calendar days the clock runs through
MaxDay == 2
\* number of workflow runs started in one behaviour
MaxRuns == 3
\* number of comments already on the tracking issue in SpecEnv
MaxSeed == 2
\* number of workflow runs started in one behaviour of SpecRace
RaceRuns == 4

\* program constants
DefaultIssues == 3
DefaultMentions == 10
DefaultReviews == 20
DefaultMinFiles == 1
DefaultMaxFiles == 50

Users == {"alice", "bob"}
SystemUser == "system"
Roles == {"OWNER", "MEMBER", "COLLABORATOR", "NONE"}
Ops == {"issue_eval", "mention", "review"}
Entries == {"issue", "mention", "review"}
Procs == {1, 2}

----------------------------------------------------------------------------
(* Wire format of a usage record *)

Digits == <<"0", "1", "2", "3", "4", "5", "6", "7", "8", "9">>

DigitSet == {Digits[i] : i \in 1..10}

DigitVal(t) == (CHOOSE i \in 1..10 : Digits[i] = t) - 1

\* str(n) of a Python int, as a sequence of digit tokens
RECURSIVE DecStr(_)
DecStr(n) ==
    IF n < 0 THEN <<"-">> \o DecStr(-n)
    ELSE IF n < 10 THEN <<Digits[n + 1]>>
    ELSE DecStr(n \div 10) \o <<Digits[(n % 10) + 1]>>

\* datetime.utcnow().strftime("%Y-%m-%d") for the day the clock shows
DateKeys == <<"2026-01-01", "2026-01-02", "2026-01-03", "2026-01-04">>

TodayKey(day) == DateKeys[day]

\* f"USAGE: {today}|{user}|{operation}|{new_count}"
UsageComment(today, user, operation, new_count) ==
    <<"USAGE:", " ", today, "|", user, "|", operation, "|">> \o DecStr(new_count)

----------------------------------------------------------------------------
(* Parsing, as _parse_usage_from_comments does it *)

RECURSIVE LStrip(_)
LStrip(s) == IF s # <<>> /\ Head(s) = " " THEN LStrip(Tail(s)) ELSE s

RECURSIVE RStrip(_)
RStrip(s) ==
    IF s # <<>> /\ s[Len(s)] = " " THEN RStrip(SubSeq(s, 1, Len(s) - 1)) ELSE s

\* str.strip()
Strip(s) == RStrip(LStrip(s))

\* str.split("|"): the fields between the pipes (one field when there is none)
RECURSIVE SplitPipe(_)
SplitPipe(s) ==
    IF \A i \in 1..Len(s) : s[i] # "|" THEN <<s>>
    ELSE LET k == CHOOSE i \in 1..Len(s) :
                      s[i] = "|" /\ \A j \in 1..(i - 1) : s[j] # "|"
         IN  <<SubSeq(s, 1, k - 1)>> \o SplitPipe(SubSeq(s, k + 1, Len(s)))

\* the digits of an int literal, sign and surrounding white space removed
Unsigned(f) ==
    LET t == Strip(f)
    IN  IF t # <<>> /\ Head(t) \in {"-", "+"} THEN Tail(t) ELSE t

\* int(f) raises ValueError unless f is an optionally signed run of digits
IsInt(f) ==
    /\ Unsigned(f) # <<>>
    /\ \A i \in 1..Len(Unsigned(f)) : Unsigned(f)[i] \in DigitSet

RECURSIVE DigitsVal(_)
DigitsVal(d) ==
    IF d = <<>> THEN 0
    ELSE 10 * DigitsVal(SubSeq(d, 1, Len(d) - 1)) + DigitVal(d[Len(d)])

IntOf(f) ==
    LET t == Strip(f)
    IN  IF t # <<>> /\ Head(t) = "-" THEN 0 - DigitsVal(Unsigned(f))
        ELSE DigitsVal(Unsigned(f))

\* usage.get(user, {}).get(operation, 0); a usage maps a user field to a map
\* from an operation field to a count
UsageGet(usage, user, operation) ==
    IF <<user>> \in DOMAIN usage /\ <<operation>> \in DOMAIN usage[<<user>>]
    THEN usage[<<user>>][<<operation>>]
    ELSE 0

\* d[k] = v on a Python dict
DictSet(d, k, v) == [x \in (DOMAIN d) \cup {k} |-> IF x = k THEN v ELSE d[x]]

EmptyDict == [x \in {} |-> 0]

\* the value stored for a key that already holds `old` when a record with
\* `new` arrives: the assignment of line 76 overwrites
StoreMax(old, new) == IF new > old THEN new ELSE old

Store(old, new) == new

\* "if date != today: continue" (the date field against today's key)
SameDayAlways(date, today) == TRUE

SameDay(date, today) == date = <<today>>

\* one iteration of the loop over the comments (lines 60-78)
ParseComment(usage, body, today) ==
    LET b == Strip(body) IN
    IF b = <<>> \/ Head(b) # "USAGE:" THEN usage
    ELSE
      LET fields == SplitPipe(Strip(Tail(b))) IN
      IF Len(fields) # 4 THEN usage
      ELSE
        LET date == fields[1]
            user == fields[2]
            op_type == fields[3]
            count == fields[4]
        IN
        IF ~SameDay(date, today) THEN usage
        ELSE
          LET withUser == IF user \in DOMAIN usage THEN usage
                          ELSE DictSet(usage, user, EmptyDict)
          IN
          IF ~IsInt(count) THEN withUser
          ELSE
            DictSet(withUser, user,
                    DictSet(withUser[user], op_type,
                            IF op_type \in DOMAIN withUser[user]
                            THEN Store(withUser[user][op_type], IntOf(count))
                            ELSE IntOf(count)))

RECURSIVE ParseFrom(_, _, _)
ParseFrom(comments, usage, today) ==
    IF comments = <<>> THEN usage
    ELSE ParseFrom(Tail(comments), ParseComment(usage, Head(comments), today), today)

\* _parse_usage_from_comments, with the day the clock shows when it is called
ParseUsage(comments, today) == ParseFrom(comments, EmptyDict, today)

\* the sum of all users' review counts (lines 155-158)
RECURSIVE SumReviews(_, _)
SumReviews(usage, users) ==
    IF users = {} THEN 0
    ELSE LET u == CHOOSE x \in users : TRUE
         IN  (IF <<"review">> \in DOMAIN usage[u] THEN usage[u][<<"review">>] ELSE 0)
             + SumReviews(usage, users \ {u})

TotalReviews(usage) == SumReviews(usage, DOMAIN usage)


----------------------------------------------------------------------------
(* Configuration document (.github/claude-config.yml) *)

\* dict.get(key, default)
ConfigGetDefault(d, key, default) == default

ConfigGet(d, key, default) == IF key \in DOMAIN d THEN d[key] ELSE default

NoKeys == [k \in {} |-> 0]

EmptyConfig == [rate_limits |-> NoKeys, top |-> NoKeys]

\* _load_config: the parsed document, {} when the file is not found
LoadConfig(file) == IF file.found THEN file.yaml ELSE EmptyConfig

\* _load_config catches FileNotFoundError only: a file that is there but
\* cannot be opened or parsed (PermissionError, yaml.YAMLError) raises
LoadRaises(file) == file.found /\ ~file.readable

LimitsOf(t) ==
    ("issues_per_user_per_day" :> t[1]) @@ ("mentions_per_user_per_day" :> t[2])
        @@ ("reviews_per_day" :> t[3])

\* <<issues, mentions, reviews>> limits of the documents the runs load
LimitTriples == {<<1, 2, 2>>, <<2, 1, 1>>, <<0, 0, 0>>}

ExemptSettings == {NoKeys, "exempt_team_members" :> FALSE}

ConfigFiles ==
    {[found |-> TRUE, readable |-> TRUE,
      yaml |-> [rate_limits |-> LimitsOf(t), top |-> e]] :
        t \in LimitTriples, e \in ExemptSettings}

\* _is_team_member
IsTeamMemberOwnerOnly(author_association) == author_association = "OWNER"

IsTeamMember(author_association) ==
    author_association \in {"OWNER", "MEMBER", "COLLABORATOR"}

\* self.config.get("exempt_team_members", True)
ExemptTeamMembersAlways(config) == TRUE

ExemptTeamMembers(config) == ConfigGet(config.top, "exempt_team_members", TRUE)

\* the operation name each check records its usage under
OpOfMention(entry) == "mention"

OpOf(entry) ==
    CASE entry = "issue" -> "issue_eval"
      [] entry = "mention" -> "mention"
      [] entry = "review" -> "review"

\* the limit each check reads (lines 102, 127, 146)

Limit(config, entry) ==
    CASE entry = "issue" ->
           ConfigGet(config.rate_limits, "issues_per_user_per_day", DefaultIssues)
      [] entry = "mention" ->
           ConfigGet(config.rate_limits, "mentions_per_user_per_day", DefaultMentions)
      [] entry = "review" ->
           ConfigGet(config.rate_limits, "reviews_per_day", DefaultReviews)

\* "if limit == 0:  # Unlimited"
UnlimitedNever(limit) == FALSE

UnlimitedAlways(limit) == TRUE

Unlimited(limit) == limit = 0

----------------------------------------------------------------------------
(* State *)

VARIABLES
    clock,      \* the UTC calendar day, 1..MaxDay
    trackers,   \* the open issues labelled claude:rate-limit-tracker, oldest first
    file,       \* the configuration file of the repository
    lanes,      \* how many workflow runs the platform lets overlap
    left,       \* number of workflow runs still to start
    pc,         \* pc[p]: where run p stands
    loc,        \* loc[p]: the locals of run p
    hist,       \* hist[key]: checks that returned allow for the key, by decision day
    carried,    \* keys that hold a record written by a check decided on another day
    race        \* how the runs have overlapped so far

vars == <<clock, trackers, file, lanes, left, pc, loc, hist, carried, race>>

TrackerLabel == "claude:rate-limit-tracker"

NewTracker ==
    [title |-> "[Internal] Claude Rate Limit Tracker", label |-> TrackerLabel,
     comments |-> <<>>]

NoReason == [msg |-> "", num |-> 0, den |-> 0]

NoLoc ==
    [entry |-> "none", user |-> "", role |-> "", limit |-> 0, tracker |-> 0,
     today |-> "", current |-> 0, new_count |-> 0,
     returned |-> FALSE, allowed |-> FALSE, reason |-> NoReason,
     appended |-> <<>>, calls |-> <<>>, ai |-> FALSE, posts |-> <<>>,
     asked |-> FALSE, should_implement |-> FALSE,
     code |-> 0, raised |-> FALSE, crashed |-> FALSE]

KeyUsers == Users \cup {SystemUser}

Keys == KeyUsers \X Ops \X {DateKeys[d] : d \in 1..MaxDay}

InFlight == {p \in Procs : pc[p] # "idle"}

\* a run starts while n - 1 others are in flight
Overlap(r, n) ==
    [r EXCEPT !.peak = IF n > @ THEN n ELSE @, !.busy = @ + 1]

\* the last run in flight ends: a period in which two or more runs took part
\* was a race window
Quiet(r) ==
    [r EXCEPT !.busy = 0,
              !.windows = IF r.busy >= 2 THEN @ + 1 ELSE @,
              !.racers = IF r.busy >= 2 THEN @ + r.busy ELSE @]

\* the run slot the platform hands out next
FreeSlot(p) ==
    /\ pc[p] = "idle"
    /\ \A q \in Procs : q < p => pc[q] # "idle"
    /\ Cardinality(InFlight) < lanes
    /\ left > 0

InitWith(ts, n, runs) ==
    /\ clock = 1
    /\ trackers \in ts
    /\ file \in ConfigFiles
    /\ lanes = n
    /\ left = runs
    /\ pc = [p \in Procs |-> "idle"]
    /\ loc = [p \in Procs |-> NoLoc]
    /\ hist = [k \in Keys |-> 0]
    /\ carried = {}
    /\ race = [peak |-> 0, busy |-> 0, windows |-> 0, racers |-> 0]

RaceUsers == {"alice"}

\* the limit the configuration document states for an entry point
ConfiguredLimit(entry) ==
    CASE entry = "issue" -> file.yaml.rate_limits["issues_per_user_per_day"]
      [] entry = "mention" -> file.yaml.rate_limits["mentions_per_user_per_day"]
      [] entry = "review" -> file.yaml.rate_limits["reviews_per_day"]

ExemptionOn ==
    "exempt_team_members" \in DOMAIN file.yaml.top => file.yaml.top["exempt_team_members"]

\* a repository whose tracking issue does not exist yet, runs one at a time
Init == InitWith({<<>>}, 1, MaxRuns)

----------------------------------------------------------------------------
(* The checks of the rate limiter *)

Returned(l, allowed, msg, num, den) ==
    [l EXCEPT !.returned = TRUE, !.allowed = allowed,
              !.reason = [msg |-> msg, num |-> num, den |-> den]]

\* RateLimiter.__init__ (the configuration is loaded), then lines 95-104
\* (and 120-129): the exemption and the zero limit, before any call to the
\* platform
BeginUserCheck(p, entry, user, role) ==
    LET config == LoadConfig(file)
        limit == Limit(config, entry)
        l == [NoLoc EXCEPT !.entry = entry, !.user = user, !.role = role]
    IN
    /\ left' = left - 1
    /\ IF LoadRaises(file)
       THEN /\ loc' = [loc EXCEPT ![p] = [l EXCEPT !.raised = TRUE, !.code = 1]]
            /\ pc' = [pc EXCEPT ![p] = "exit"]
       ELSE IF ExemptTeamMembers(config) /\ IsTeamMember(role)
       THEN /\ loc' = [loc EXCEPT ![p] = Returned(l, TRUE, "Team member - no limits", 0, 0)]
            /\ pc' = [pc EXCEPT ![p] = "checked"]
       ELSE IF Unlimited(limit)
       THEN /\ loc' = [loc EXCEPT ![p] = Returned(l, TRUE, "No limit configured", 0, 0)]
            /\ pc' = [pc EXCEPT ![p] = "checked"]
       ELSE /\ loc' = [loc EXCEPT ![p] = [l EXCEPT !.limit = limit]]
            /\ pc' = [pc EXCEPT ![p] = "lookup"]
    /\ race' = Overlap(race, Cardinality(InFlight) + 1)
    /\ UNCHANGED <<clock, trackers, file, lanes, hist, carried>>

\* evaluate_issue up to check_issue_evaluation's first call to the platform
StartIssue(p, user, role) ==
    /\ FreeSlot(p)
    /\ BeginUserCheck(p, "issue", user, role)

\* claude_mention_handler.main up to check_mention_response's first call
StartMention(p, user, role) ==
    /\ FreeSlot(p)
    /\ BeginUserCheck(p, "mention", user, role)

\* perform_code_review up to check_code_review's first call to the platform
StartReview(p, draft, skip_label) ==
    LET config == LoadConfig(file)
        review_config == ConfigGet(config.top, "code_review", NoKeys)
        limit == Limit(config, "review")
        l == [NoLoc EXCEPT !.entry = "review", !.user = SystemUser]
    IN
    /\ FreeSlot(p)
    /\ left' = left - 1
    /\ IF LoadRaises(file)
       THEN /\ loc' = [loc EXCEPT ![p] = [l EXCEPT !.raised = TRUE, !.code = 1]]
            /\ pc' = [pc EXCEPT ![p] = "exit"]
       ELSE IF \/ ConfigGet(review_config, "skip_draft_prs", TRUE) /\ draft
               \/ ConfigGet(review_config, "allow_skip_label", TRUE) /\ skip_label
       THEN /\ loc' = [loc EXCEPT ![p] = l]
            /\ pc' = [pc EXCEPT ![p] = "exit"]
       ELSE IF Unlimited(limit)
       THEN /\ loc' = [loc EXCEPT ![p] = Returned(l, TRUE, "No limit configured", 0, 0)]
            /\ pc' = [pc EXCEPT ![p] = "checked"]
       ELSE /\ loc' = [loc EXCEPT ![p] = [l EXCEPT !.limit = limit]]
            /\ pc' = [pc EXCEPT ![p] = "lookup"]
    /\ race' = Overlap(race, Cardinality(InFlight) + 1)
    /\ UNCHANGED <<clock, trackers, file, lanes, hist, carried>>

\* repo.get_issues(state="open", labels=[...]) lists the newest issue first
FirstListed(ts) == Len(ts)

\* the loop of lines 40-41 returns nothing: no open issue has the label
NoneListedEver(ts) == TRUE

NoneListed(ts) == ts = <<>>

\* _get_rate_limit_issue, lines 35-41: the first open issue with the label
Lookup(p) ==
    /\ pc[p] = "lookup"
    /\ IF ~NoneListed(trackers)
       THEN /\ loc' = [loc EXCEPT ![p].tracker = FirstListed(trackers),
                                  ![p].calls = Append(@, "get_issues")]
            /\ pc' = [pc EXCEPT ![p] = "read"]
       ELSE /\ loc' = [loc EXCEPT ![p].calls = Append(@, "get_issues")]
            /\ pc' = [pc EXCEPT ![p] = "create"]
    /\ UNCHANGED <<clock, trackers, file, lanes, left, hist, carried, race>>

\* _get_rate_limit_issue, lines 44-49: none was listed, create one
Create(p) ==
    /\ pc[p] = "create"
    /\ trackers' = Append(trackers, NewTracker)
    /\ loc' = [loc EXCEPT ![p].tracker = Len(trackers) + 1,
                          ![p].calls = Append(@, "create_issue")]
    /\ pc' = [pc EXCEPT ![p] = "read"]
    /\ UNCHANGED <<clock, file, lanes, left, hist, carried, race>>

\* the count a check compares with its limit
CurrentOwnKey(usage, l) == UsageGet(usage, l.user, OpOf(l.entry))

Current(usage, l) ==
    IF l.entry = "review" THEN TotalReviews(usage)
    ELSE UsageGet(usage, l.user, OpOf(l.entry))

KeyOf(l, today) == <<l.user, OpOf(l.entry), today>>

\* the comparison of lines 111, 136 and 160
OverLimitStrict(current, limit) == current > limit

OverLimit(current, limit) == current >= limit

\* lines 108-112 (133-137, 153-161): read the usage and decide
Read(p) ==
    LET l == loc[p]
        today == TodayKey(clock)
        usage == ParseUsage(trackers[l.tracker].comments, today)
        current == Current(usage, l)
        seen == [l EXCEPT !.today = today, !.current = current,
                          !.calls = Append(@, "get_comments")]
    IN
    /\ pc[p] = "read"
    /\ IF OverLimit(current, l.limit)
       THEN /\ loc' = [loc EXCEPT ![p] =
                         Returned(seen, FALSE, "Rate limit exceeded", current, l.limit)]
            /\ pc' = [pc EXCEPT ![p] = "checked"]
            /\ hist' = hist
       ELSE /\ loc' = [loc EXCEPT ![p] = seen]
            /\ pc' = [pc EXCEPT ![p] = "reread"]
            /\ hist' = hist
    /\ UNCHANGED <<clock, trackers, file, lanes, left, carried, race>>

\* the count _increment_usage writes, from the usage it read itself
NewCountSame(usage, l) == UsageGet(usage, l.user, OpOf(l.entry))

NewCount(usage, l) == UsageGet(usage, l.user, OpOf(l.entry)) + 1

\* _increment_usage, lines 84-88: read the usage again
Reread(p) ==
    LET l == loc[p]
        usage == ParseUsage(trackers[l.tracker].comments, TodayKey(clock))
    IN
    /\ pc[p] = "reread"
    /\ loc' = [loc EXCEPT ![p].new_count = NewCount(usage, l),
                          ![p].calls = Append(@, "get_comments")]
    /\ pc' = [pc EXCEPT ![p] = "append"]
    /\ UNCHANGED <<clock, trackers, file, lanes, left, hist, carried, race>>

\* tracker_issue.create_comment(body) on the comment list of the issue
CreateCommentTwice(comments, body) == Append(Append(comments, body), body)

CreateCommentOver(comments, body) == <<body>>

CreateComment(comments, body) == Append(comments, body)

\* _increment_usage, lines 85 and 91, and the return of line 116 (141, 165)
AppendUsage(p) ==
    LET l == loc[p]
        today == TodayKey(clock)
        body == UsageComment(today, l.user, OpOf(l.entry), l.new_count)
        done == [l EXCEPT !.appended = Append(@, body),
                          !.calls = Append(@, "create_comment")]
    IN
    /\ pc[p] = "append"
    /\ trackers' = [trackers EXCEPT ![l.tracker].comments = CreateComment(@, body)]
    /\ loc' = [loc EXCEPT ![p] = Returned(done, TRUE, "Usage", l.current + 1, l.limit)]
    /\ pc' = [pc EXCEPT ![p] = "checked"]
    /\ hist' = [hist EXCEPT ![KeyOf(l, l.today)] = @ + 1]
    /\ carried' = IF today = l.today THEN carried
                  ELSE carried \cup {KeyOf(l, today)}
    /\ UNCHANGED <<clock, file, lanes, left, race>>

----------------------------------------------------------------------------
(* The entry points after the check *)

Post(l, what, to, reason) ==
    [l EXCEPT !.posts = Append(@, [what |-> what, to |-> to, reason |-> reason])]

\* the check said no: lines 55-61 of claude_code_review.py, 45-52 of
\* claude_issue_evaluator.py, 144-146 of claude_mention_handler.py
Denied(p) ==
    LET l == loc[p] IN
    /\ pc[p] = "checked"
    /\ ~l.allowed
    /\ loc' = [loc EXCEPT ![p] =
                 CASE l.entry = "review" -> Post(l, "limit notice", "", NoReason)
                   [] l.entry = "issue" -> Post(l, "limit notice", l.user, l.reason)
                   [] l.entry = "mention" -> l]
    /\ pc' = [pc EXCEPT ![p] = "exit"]
    /\ UNCHANGED <<clock, trackers, file, lanes, left, hist, carried, race>>

\* claude_code_review.py lines 69-86: the changed-file count
ReviewFiles(p, n) ==
    LET l == loc[p]
        review_config == ConfigGet(LoadConfig(file).top, "code_review", NoKeys)
        min_files == ConfigGet(review_config, "min_files_changed", DefaultMinFiles)
        max_files == ConfigGet(review_config, "max_files_changed", DefaultMaxFiles)
    IN
    /\ pc[p] = "checked"
    /\ l.allowed
    /\ l.entry = "review"
    /\ IF n < min_files
       THEN /\ loc' = loc
            /\ pc' = [pc EXCEPT ![p] = "exit"]
       ELSE IF n > max_files
       THEN /\ loc' = [loc EXCEPT ![p] = Post(l, "too many files", "", NoReason)]
            /\ pc' = [pc EXCEPT ![p] = "exit"]
       ELSE /\ loc' = loc
            /\ pc' = [pc EXCEPT ![p] = "ai"]
    /\ UNCHANGED <<clock, trackers, file, lanes, left, hist, carried, race>>

\* create_claude_conversation: the call to the AI service (it returns a text
\* also when the service fails)
CallAIUnchecked(p) ==
    LET l == loc[p] IN
    /\ \/ pc[p] = "ai"
       \/ pc[p] = "checked" /\ l.entry # "review"
    /\ loc' = [loc EXCEPT ![p].ai = TRUE]
    /\ pc' = [pc EXCEPT ![p] = "post"]
    /\ UNCHANGED <<clock, trackers, file, lanes, left, hist, carried, race>>

CallAI(p) ==
    LET l == loc[p] IN
    /\ \/ pc[p] = "ai"
       \/ pc[p] = "checked" /\ l.allowed /\ l.entry # "review"
    /\ loc' = [loc EXCEPT ![p].ai = TRUE]
    /\ pc' = [pc EXCEPT ![p] = "post"]
    /\ UNCHANGED <<clock, trackers, file, lanes, left, hist, carried, race>>

\* should_auto_implement
ShouldAutoImplementAlways(config, author_association) == TRUE

ShouldAutoImplement(config, author_association) ==
    LET c == ConfigGet(config.top, "issue_evaluation", NoKeys) IN
    IF IsTeamMember(author_association)
    THEN ConfigGet(c, "auto_implement_team_member_issues", TRUE)
    ELSE ConfigGet(c, "auto_implement_external_issues", FALSE)

\* evaluate_issue, lines 138-214: what is posted on the issue after the
\* evaluation.  `implementable` is the verdict parsed from the AI's text,
\* `success` what attempt_implementation returns.  In the branch that only
\* posts the plan, `success` is read at line 187 without ever being bound:
\* UnboundLocalError, which main catches and turns into exit code 1
IssueReply(p, implementable, success) ==
    LET l == loc[p]
        should_implement == ShouldAutoImplement(LoadConfig(file), l.role)
        asked == [l EXCEPT !.asked = TRUE, !.should_implement = should_implement]
    IN
    /\ pc[p] = "post"
    /\ l.entry = "issue"
    /\ loc' = [loc EXCEPT ![p] =
                 IF ~implementable THEN Post(l, "clarification", l.user, NoReason)
                 ELSE IF should_implement
                 THEN IF success
                      THEN Post(asked, "plan", l.user, NoReason)
                      ELSE Post(Post(asked, "plan", l.user, NoReason),
                                "difficulties", l.user, NoReason)
                 ELSE [Post(asked, "plan only", l.user, NoReason)
                          EXCEPT !.crashed = TRUE, !.code = 1]]
    /\ pc' = [pc EXCEPT ![p] = "exit"]
    /\ UNCHANGED <<clock, trackers, file, lanes, left, hist, carried, race>>

\* the reply to a mention or the review is posted and the run ends
PostReply(p) ==
    LET l == loc[p] IN
    /\ pc[p] = "post"
    /\ l.entry # "issue"
    /\ loc' = [loc EXCEPT ![p] = Post(l, "reply", l.user, NoReason)]
    /\ pc' = [pc EXCEPT ![p] = "exit"]
    /\ UNCHANGED <<clock, trackers, file, lanes, left, hist, carried, race>>

\* the process ends; nothing of it is left but what it wrote to the platform
Finish(p) ==
    /\ pc[p] = "exit"
    /\ loc' = [loc EXCEPT ![p] = NoLoc]
    /\ pc' = [pc EXCEPT ![p] = "idle"]
    /\ race' = IF InFlight = {p} THEN Quiet(race) ELSE race
    /\ UNCHANGED <<clock, trackers, file, lanes, left, hist, carried>>

\* midnight UTC
Tick ==
    /\ clock < MaxDay
    /\ clock' = clock + 1
    /\ UNCHANGED <<trackers, file, lanes, left, pc, loc, hist, carried, race>>

\* a call to the platform fails: the rate limiter catches nothing, the
\* exception leaves the check and ends the run (claude_code_review.py and
\* claude_issue_evaluator.py: main prints it and exits with 1;
\* claude_mention_handler.py: it is not caught at all)
FailOpen(p) ==
    /\ pc[p] \in {"lookup", "create", "read", "reread", "append"}
    /\ loc' = [loc EXCEPT ![p] =
                 Returned([loc[p] EXCEPT !.raised = TRUE], TRUE, "Usage", 0, 0)]
    /\ pc' = [pc EXCEPT ![p] = "checked"]
    /\ UNCHANGED <<clock, trackers, file, lanes, left, hist, carried, race>>

Fail(p) ==
    /\ pc[p] \in {"lookup", "create", "read", "reread", "append"}
    /\ loc' = [loc EXCEPT ![p].raised = TRUE, ![p].code = 1]
    /\ pc' = [pc EXCEPT ![p] = "exit"]
    /\ UNCHANGED <<clock, trackers, file, lanes, left, hist, carried, race>>

FileCounts == {0, 1, DefaultMaxFiles + 1}

Next ==
    \/ \E p \in Procs, user \in Users, role \in Roles : StartIssue(p, user, role)
    \/ \E p \in Procs, user \in Users, role \in Roles : StartMention(p, user, role)
    \/ \E p \in Procs, draft \in BOOLEAN, skip_label \in BOOLEAN :
          StartReview(p, draft, skip_label)
    \/ \E p \in Procs : Lookup(p)
    \/ \E p \in Procs : Create(p)
    \/ \E p \in Procs : Read(p)
    \/ \E p \in Procs : Reread(p)
    \/ \E p \in Procs : AppendUsage(p)
    \/ \E p \in Procs : Denied(p)
    \/ \E p \in Procs, n \in FileCounts : ReviewFiles(p, n)
    \/ \E p \in Procs : CallAI(p)
    \/ \E p \in Procs : PostReply(p)
    \/ \E p \in Procs, implementable \in BOOLEAN, success \in BOOLEAN :
          IssueReply(p, implementable, success)
    \/ \E p \in Procs : Finish(p)
    \/ Tick

Spec == Init /\ [][Next]_vars


----------------------------------------------------------------------------
(* A tracking issue that already holds comments: records of earlier runs    *)
(* (under other limits, or written by hand under any actor) and comments   *)
(* that are no records.  One more run follows.                              *)

SeedBodies ==
    {UsageComment(TodayKey(1), "alice", "mention", 2),
     UsageComment(TodayKey(1), "alice", "mention", 5),
     UsageComment(TodayKey(1), "alice", "issue_eval", 2),
     UsageComment(TodayKey(1), "alice", "review", 2),
     UsageComment(TodayKey(1), SystemUser, "review", 1),
     UsageComment(TodayKey(2), "alice", "mention", 1),
     <<"Please", " ", "do", " ", "not", " ", "close">>}

SeedComments == UNION {[1..n -> SeedBodies] : n \in 0..MaxSeed}

SeededTrackers == {<<[NewTracker EXCEPT !.comments = c]>> : c \in SeedComments}

InitEnv == InitWith(SeededTrackers \cup {<<>>}, 1, 1)

SpecEnv == InitEnv /\ [][Next]_vars

\* the same, with calls to the platform that may fail
NextFault ==
    \/ Next
    \/ \E p \in Procs : Fail(p)

SpecFault == InitEnv /\ [][NextFault]_vars

\* runs that overlap, from a repository without a tracking issue
InitRace ==
    /\ InitWith({<<>>}, Cardinality(Procs), RaceRuns)
    /\ ExemptionOn
    /\ ConfiguredLimit("mention") = 2

\* mentions of the same day by users without a team role
NextRace ==
    \/ \E p \in Procs, user \in RaceUsers : StartMention(p, user, "NONE")
    \/ \E p \in Procs : Lookup(p)
    \/ \E p \in Procs : Create(p)
    \/ \E p \in Procs : Read(p)
    \/ \E p \in Procs : Reread(p)
    \/ \E p \in Procs : AppendUsage(p)
    \/ \E p \in Procs : Denied(p)
    \/ \E p \in Procs : CallAI(p)
    \/ \E p \in Procs : PostReply(p)
    \/ \E p \in Procs : Finish(p)
    \/ Tick

SpecRace == InitRace /\ [][NextRace]_vars

\* a tracking issue on which people and broken tools have commented too:
\* records of both days, lines that start like a record but have the wrong
\* number of fields or a count that is no integer, and free text
ParseBodies ==
    {UsageComment(TodayKey(1), "alice", "mention", 1),
     <<" ">> \o UsageComment(TodayKey(1), "bob", "review", 2) \o <<" ">>,
     UsageComment(TodayKey(2), "alice", "mention", 3),
     <<"USAGE:", " ", TodayKey(1), "|", "alice", "|", "mention">>,
     <<"USAGE:", " ", TodayKey(1), "|", "alice", "|", "mention", "|", "7", "|", "7">>,
     <<"USAGE:", " ", TodayKey(1), "|", "carol", "|", "review", "|", "many">>,
     <<"USAGE:", " ", TodayKey(1), "|", "alice", "|", "mention", "|">>,
     <<"USAGE:", "7">>,
     <<"Please", " ", "do", " ", "not", " ", "close">>}

ParseComments == UNION {[1..n -> ParseBodies] : n \in 1..MaxSeed}

ParseTrackers == {<<[NewTracker EXCEPT !.comments = c]>> : c \in ParseComments}

InitParse ==
    /\ InitWith(ParseTrackers, 1, 1)
    /\ ConfiguredLimit("mention") = 2

\* one mention or one review on that tracking issue
NextParse ==
    \/ \E p \in Procs, user \in RaceUsers : StartMention(p, user, "NONE")
    \/ \E p \in Procs : StartReview(p, FALSE, FALSE)
    \/ \E p \in Procs : Lookup(p)
    \/ \E p \in Procs : Read(p)
    \/ \E p \in Procs : Reread(p)
    \/ \E p \in Procs : AppendUsage(p)
    \/ \E p \in Procs : Denied(p)
    \/ Tick

SpecParse == InitParse /\ [][NextParse]_vars

\* configuration documents that state any part of the six keys; a stated
\* value differs from the default of its key
RateLimitKeys ==
    {"issues_per_user_per_day", "mentions_per_user_per_day", "reviews_per_day"}

AutoImplementKeys ==
    {"auto_implement_team_member_issues", "auto_implement_external_issues"}

ConfigKeys == RateLimitKeys \cup AutoImplementKeys \cup {"exempt_team_members"}

StatedLimits == LimitsOf(<<1, 2, 1>>)

StatedAuto ==
    ("auto_implement_team_member_issues" :> FALSE)
        @@ ("auto_implement_external_issues" :> TRUE)

DocumentWith(keys) ==
    [rate_limits |-> [k \in keys \cap RateLimitKeys |-> StatedLimits[k]],
     top |->
        [k \in (keys \cap {"exempt_team_members"})
                  \cup (IF keys \cap AutoImplementKeys = {} THEN {}
                        ELSE {"issue_evaluation"}) |->
            IF k = "exempt_team_members" THEN FALSE
            ELSE [j \in keys \cap AutoImplementKeys |-> StatedAuto[j]]]]

PartialFiles ==
    {[found |-> TRUE, readable |-> TRUE, yaml |-> DocumentWith(keys)] :
        keys \in SUBSET ConfigKeys}

MissingFile == [found |-> FALSE, readable |-> FALSE, yaml |-> EmptyConfig]

UnreadableFile == [found |-> TRUE, readable |-> FALSE, yaml |-> EmptyConfig]

\* one run in a repository with any of these files
InitConfig ==
    /\ clock = 1
    /\ trackers = <<>>
    /\ file \in PartialFiles \cup {MissingFile, UnreadableFile}
    /\ lanes = 1
    /\ left = 1
    /\ pc = [p \in Procs |-> "idle"]
    /\ loc = [p \in Procs |-> NoLoc]
    /\ hist = [k \in Keys |-> 0]
    /\ carried = {}
    /\ race = [peak |-> 0, busy |-> 0, windows |-> 0, racers |-> 0]

\* the one run meets an empty ledger: no check of it can be denied
NextConfig ==
    \/ \E p \in Procs, user \in Users, role \in Roles : StartIssue(p, user, role)
    \/ \E p \in Procs, user \in Users, role \in Roles : StartMention(p, user, role)
    \/ \E p \in Procs, draft \in BOOLEAN, skip_label \in BOOLEAN :
          StartReview(p, draft, skip_label)
    \/ \E p \in Procs : Lookup(p)
    \/ \E p \in Procs : Create(p)
    \/ \E p \in Procs : Read(p)
    \/ \E p \in Procs : Reread(p)
    \/ \E p \in Procs : AppendUsage(p)
    \/ \E p \in Procs, n \in FileCounts : ReviewFiles(p, n)
    \/ \E p \in Procs : CallAI(p)
    \/ \E p \in Procs : PostReply(p)
    \/ \E p \in Procs, implementable \in BOOLEAN, success \in BOOLEAN :
          IssueReply(p, implementable, success)
    \/ \E p \in Procs : Finish(p)
    \/ Tick

SpecConfig == InitConfig /\ [][NextConfig]_vars

----------------------------------------------------------------------------
(* What the claims speak of *)

TeamRoles == {"OWNER", "MEMBER", "COLLABORATOR"}

ReasonIs(l, msg, num, den) == l.reason = [msg |-> msg, num |-> num, den |-> den]

\* the check of run p went through the metered path and has returned
MeteredReturn(p) == pc[p] = "checked" /\ loc[p].today # ""

\* run p holds a decision value read from comments that nobody has added to
\* since (runs do not overlap under Spec and SpecEnv)
HoldsRead(p) == pc[p] = "reread" \/ (MeteredReturn(p) /\ ~loc[p].allowed)

CountRange == 0..9

IsRecordOf(body, today, user, op) ==
    \E n \in CountRange : body = UsageComment(today, user, op, n)

\* the counts of the records of a key, in arrival order
RecordCounts(comments, today, user, op) ==
    LET sel == SelectSeq(comments, LAMBDA b : IsRecordOf(b, today, user, op))
    IN  [i \in 1..Len(sel) |->
            CHOOSE n \in CountRange : sel[i] = UsageComment(today, user, op, n)]

RECURSIVE MaxOf(_)
MaxOf(q) ==
    IF Len(q) = 1 THEN q[1]
    ELSE LET m == MaxOf(Tail(q)) IN IF q[1] > m THEN q[1] ELSE m

LastOf(q) == q[Len(q)]

CountsSeen(p) ==
    RecordCounts(trackers[loc[p].tracker].comments, loc[p].today,
                 loc[p].user, OpOf(loc[p].entry))

\* C1: sequential limit enforcement.  From an empty ledger, with runs one
\* after another, a metered check for a key returns allow with the reason
\* k/L when it is the k-th allowed one (k <= L), and it returns deny with
\* the reason L/L exactly when L checks of the key were allowed before.
\* (Keys holding a record that a check decided on another day wrote are
\* left out: those checks did not run on the key's day.)
C1_LimitEnforcement ==
    \A p \in Procs :
        LET l == loc[p]
            K == KeyOf(l, l.today)
            L == ConfiguredLimit(l.entry)
        IN  (MeteredReturn(p) /\ K \notin carried) =>
                IF l.allowed
                THEN hist[K] <= L /\ ReasonIs(l, "Usage", hist[K], L)
                ELSE hist[K] = L /\ ReasonIs(l, "Rate limit exceeded", L, L)

C1_Witness ==
    \E p \in Procs :
        LET l == loc[p] K == KeyOf(l, l.today) IN
        /\ MeteredReturn(p) /\ K \notin carried
        /\ ~l.allowed /\ ConfiguredLimit(l.entry) = 2 /\ hist[K] = 2
        /\ ReasonIs(l, "Rate limit exceeded", 2, 2)

UsageOnLedger(p) ==
    IF trackers = <<>> THEN <<>>
    ELSE RecordCounts(trackers[FirstListed(trackers)].comments, TodayKey(clock),
                      loc[p].user, OpOf(loc[p].entry))

\* the check of run p has started (a review skipped as a draft or for its
\* label ends before the check)
InCheck(p) ==
    /\ pc[p] # "idle"
    /\ ~(pc[p] = "exit" /\ ~loc[p].returned /\ ~loc[p].raised)

\* C5: with the exemption on, a check_issue_evaluation or
\* check_mention_response for a team role returns allow at once, calls the
\* platform not at all and appends nothing, whatever the ledger holds
C5_ExemptIdempotent ==
    \A p \in Procs :
        LET l == loc[p] IN
        (InCheck(p) /\ l.entry \in {"issue", "mention"} /\ l.role \in TeamRoles
            /\ ExemptionOn) =>
            /\ l.returned /\ l.allowed
            /\ l.appended = <<>>
            /\ l.calls = <<>>

C5_Witness ==
    \E p \in Procs :
        LET l == loc[p] IN
        /\ pc[p] = "checked" /\ l.role \in TeamRoles /\ ExemptionOn
        /\ ReasonIs(l, "Team member - no limits", 0, 0)
        /\ ConfiguredLimit(l.entry) > 0
        /\ UsageOnLedger(p) # <<>>
        /\ LastOf(UsageOnLedger(p)) >= ConfiguredLimit(l.entry)

\* C6: when the limit of the entry point is 0 the check returns allow
\* whatever usage the ledger holds, calls the platform not at all and
\* appends nothing
C6_UnlimitedBypass ==
    \A p \in Procs :
        LET l == loc[p] IN
        (InCheck(p) /\ ConfiguredLimit(l.entry) = 0) =>
            /\ l.returned /\ l.allowed
            /\ l.appended = <<>>
            /\ l.calls = <<>>

C6_Witness ==
    \E p \in Procs :
        LET l == loc[p] IN
        /\ pc[p] = "checked" /\ ConfiguredLimit(l.entry) = 0
        /\ ReasonIs(l, "No limit configured", 0, 0)
        /\ UsageOnLedger(p) # <<>>
        /\ LastOf(UsageOnLedger(p)) = 5

\* C7: a check goes on to record usage only while current < limit; with
\* current >= limit it returns deny with the reason current/limit, raises
\* nothing, creates no tracking issue and appends nothing
C7_DenyNoSideEffect ==
    \A p \in Procs :
        LET l == loc[p]
            L == ConfiguredLimit(l.entry)
        IN
        /\ pc[p] \in {"reread", "append"} => l.current < L
        /\ (MeteredReturn(p) /\ l.allowed) => l.current < L
        /\ (MeteredReturn(p) /\ ~l.allowed) =>
              /\ l.current >= L
              /\ ReasonIs(l, "Rate limit exceeded", l.current, L)
              /\ ~l.raised
              /\ l.appended = <<>>
              /\ l.calls = <<"get_issues", "get_comments">>

C7_Witness ==
    \E p \in Procs :
        LET l == loc[p] IN
        /\ MeteredReturn(p) /\ ~l.allowed
        /\ ReasonIs(l, "Rate limit exceeded", 5, 2)
        /\ l.appended = <<>>

\* C8: when a call to the platform fails during a check, the check returns
\* neither allow nor deny, and the run ends with an error without calling
\* the AI service or posting anything
C8_FailClosed ==
    \A p \in Procs :
        LET l == loc[p] IN
        l.raised =>
            /\ ~l.returned
            /\ ~l.ai
            /\ l.posts = <<>>
            /\ pc[p] = "exit"
            /\ l.code = 1

\* the append fails after the check had found the usage under the limit
C8_Witness ==
    \E p \in Procs :
        LET l == loc[p] IN
        /\ l.raised /\ pc[p] = "exit"
        /\ l.calls = <<"get_issues", "get_comments", "get_comments">>
        /\ l.current < l.limit

LastOrZero(q) == IF q = <<>> THEN 0 ELSE LastOf(q)

RECURSIVE SumOver(_, _, _)
SumOver(users, comments, today) ==
    IF users = {} THEN 0
    ELSE LET u == CHOOSE x \in users : TRUE
         IN  LastOrZero(RecordCounts(comments, today, u, "review"))
             + SumOver(users \ {u}, comments, today)

\* C9: check_code_review takes no identity; with a limit above 0 it always
\* goes through the metered path whatever exempt_team_members says, the
\* value it compares is the sum of today's review counts of all actors, and
\* what it appends is a review record of "system"
C9_GlobalReviewCounter ==
    \A p \in Procs :
        LET l == loc[p] IN
        (InCheck(p) /\ l.entry = "review") =>
            /\ l.user = SystemUser /\ l.role = ""
            /\ (ConfiguredLimit("review") > 0 /\ l.returned) => l.today # ""
            /\ HoldsRead(p) =>
                 l.current = SumOver(KeyUsers, trackers[l.tracker].comments, l.today)
            /\ \A i \in 1..Len(l.appended) :
                 \E d \in 1..MaxDay :
                     IsRecordOf(l.appended[i], TodayKey(d), SystemUser, "review")

\* a review is denied on the strength of another actor's review records
C9_Witness ==
    \E p \in Procs :
        LET l == loc[p] IN
        /\ l.entry = "review" /\ MeteredReturn(p) /\ ~l.allowed
        /\ ExemptionOn
        /\ l.current = 3
        /\ LastOrZero(RecordCounts(trackers[l.tracker].comments, l.today,
                                   SystemUser, "review")) = 1

EntryOfOp(op) == CHOOSE e \in Entries : OpOf(e) = op

LimitOfKey(K) == ConfiguredLimit(EntryOfOp(K[2]))

\* periods in which runs have overlapped, the running one included, and the
\* runs that took part in them
Windows == race.windows + (IF race.busy >= 2 THEN 1 ELSE 0)

Racers == race.racers + (IF race.busy >= 2 THEN race.busy ELSE 0)

\* C3 as stated: with at most N runs in flight at the same time, the checks
\* of a key that return allow never number more than L + (N - 1)
C3_BoundedOvershoot ==
    \A K \in Keys :
        (LimitOfKey(K) > 0 /\ race.peak >= 1) =>
            hist[K] <= LimitOfKey(K) + (race.peak - 1)

\* C3 amended: when the runs overlap in one period only, in which R runs
\* take part, and every other run runs alone, the checks of a key that
\* return allow never number more than L + (R - 1)
C3_OneRaceWindow ==
    \A K \in Keys :
        (LimitOfKey(K) > 0 /\ Windows = 1) =>
            hist[K] <= LimitOfKey(K) + (Racers - 1)

\* two runs raced, two ran alone, and the limit of 2 was passed by one
C3_Witness ==
    \E K \in Keys :
        /\ LimitOfKey(K) = 2 /\ Windows = 1 /\ Racers = 2
        /\ hist[K] = 3
        /\ left = 0

\* C4: a check that returns allow on the metered path has appended exactly
\* one record, dated with the day of the decision, for the checked actor
\* and operation, whose count is current + 1, the number its reason cites
C4_RecordMatchesDecision ==
    \A p \in Procs :
        LET l == loc[p] IN
        (MeteredReturn(p) /\ l.allowed) =>
            /\ ReasonIs(l, "Usage", l.current + 1, ConfiguredLimit(l.entry))
            /\ l.appended =
                 <<UsageComment(l.today, l.user, OpOf(l.entry), l.current + 1)>>

\* C10: usage of another day never counts.  A check is denied only when L
\* checks of its key were allowed on the day of its decision, and the first
\* check allowed for a key on a day appends a record with count 1
C10_DayIsolation ==
    \A p \in Procs :
        LET l == loc[p]
            K == KeyOf(l, l.today)
        IN
        /\ (MeteredReturn(p) /\ ~l.allowed) => hist[K] >= ConfiguredLimit(l.entry)
        /\ (MeteredReturn(p) /\ l.allowed /\ hist[K] = 1) => l.new_count = 1

----------------------------------------------------------------------------
(* The parser on ledgers with foreign and malformed comments *)

RecordUsers == KeyUsers \cup {"carol"}

\* a well-formed record of the day: "USAGE:", the day, an actor, an operation
\* and a count, white space around it allowed
WellFormedToday(body, today) ==
    \E user \in RecordUsers, op \in Ops, n \in CountRange :
        Strip(body) = UsageComment(today, user, op, n)

\* a snapshot as the set of its <<actor, operation, count>> entries
SnapshotEntries(usage) ==
    UNION {{<<u, o, usage[u][o]>> : o \in DOMAIN usage[u]} : u \in DOMAIN usage}

\* C11: parser robustness.  The value a check reads from a ledger that mixes
\* records with free text, other days' records and malformed USAGE lines is
\* the value it would read from the well-formed records of the day alone,
\* and the two snapshots hold the same <<actor, operation, count>> entries
C11_ParserRobust ==
    \A p \in Procs :
        LET l == loc[p]
            comments == trackers[l.tracker].comments
            good == SelectSeq(comments, LAMBDA b : WellFormedToday(b, l.today))
        IN  HoldsRead(p) =>
              /\ l.current = Current(ParseUsage(good, l.today), l)
              /\ SnapshotEntries(ParseUsage(comments, l.today))
                    = SnapshotEntries(ParseUsage(good, l.today))

\* a mention check read 1 from a ledger whose first comment has a count
\* that is no integer
C11_Witness ==
    \E p \in Procs :
        LET l == loc[p] IN
        /\ HoldsRead(p) /\ l.entry = "mention" /\ l.current = 1
        /\ trackers[l.tracker].comments =
              << <<"USAGE:", " ", l.today, "|", "carol", "|", "review", "|", "many">>,
                 UsageComment(l.today, "alice", "mention", 1) >>

----------------------------------------------------------------------------
(* Appends per run *)

RECURSIVE CommentsOn(_)
CommentsOn(ts) ==
    IF ts = <<>> THEN 0 ELSE Len(Head(ts).comments) + CommentsOn(Tail(ts))

\* number of comments on all tracking issues
LedgerSize == CommentsOn(trackers)

\* C12: at most one append per run.  Every step that adds to the ledger adds
\* one comment, is the first append of the run that takes it, and leaves
\* that run with an allow returned on the metered path
C12_OneAppendPerRun ==
    [][LedgerSize' # LedgerSize =>
          /\ LedgerSize' = LedgerSize + 1
          /\ \E p \in Procs :
                /\ loc[p].appended = <<>>
                /\ Len(loc'[p].appended) = 1
                /\ loc'[p].returned /\ loc'[p].allowed
                /\ loc'[p].today # "" /\ ~Unlimited(loc'[p].limit)
                /\ \A q \in Procs \ {p} : loc'[q] = loc[q]]_vars

\* a run that appended its record, called the AI service and posted its
\* reply is about to end, with one record appended
C12_Witness ==
    \E p \in Procs :
        /\ pc[p] = "exit" /\ loc[p].ai
        /\ Len(loc[p].appended) = 1
        /\ Len(loc[p].posts) = 1

----------------------------------------------------------------------------
(* The tracking issue *)

\* run p holds the tracking issue its check found or created
HoldsTracker(p) == pc[p] \in {"read", "reread", "append"} \/ MeteredReturn(p)

IsSubSeqAt(part, whole, k) ==
    /\ k + Len(part) - 1 <= Len(whole)
    /\ \A i \in 1..Len(part) : whole[k + i - 1] = part[i]

\* the comments a run appended stand on the tracking issue t
AppendedOn(p, t) ==
    \E k \in 1..(Len(trackers[t].comments) + 1) :
        IsSubSeqAt(loc[p].appended, trackers[t].comments, k)

\* C13: with runs one after another, from a repository without a tracking
\* issue, at most one tracking issue is ever created (the lookup creates one
\* only when none is listed), it has the fixed title and label, and every
\* check reads that issue and appends to it
C13_SingleTracker ==
    /\ Len(trackers) <= 1
    /\ \A t \in 1..Len(trackers) :
          trackers[t].label = TrackerLabel /\ trackers[t].title = NewTracker.title
    /\ \A p \in Procs :
          HoldsTracker(p) =>
            /\ loc[p].tracker = 1 /\ Len(trackers) = 1
            /\ AppendedOn(p, 1)
            /\ (\E i \in 1..Len(loc[p].calls) : loc[p].calls[i] = "create_issue")
                  => Len(loc[p].calls) >= 2 /\ loc[p].calls[1] = "get_issues"

\* the last of three runs found the issue an earlier run created and added
\* the third record to it
C13_Witness ==
    \E p \in Procs :
        /\ MeteredReturn(p) /\ loc[p].allowed /\ left = 0
        /\ loc[p].calls = <<"get_issues", "get_comments", "get_comments", "create_comment">>
        /\ Len(trackers) = 1 /\ Len(trackers[1].comments) = 3
        /\ AppendedOn(p, 1)

IsPrefix(a, b) == Len(a) <= Len(b) /\ \A i \in 1..Len(a) : b[i] = a[i]

\* a check of run p is under way
Checking(p) == pc[p] \in {"lookup", "create", "read", "reread", "append"}

\* no step removes a tracking issue or changes a comment that is on one
LedgerKept ==
    /\ Len(trackers') >= Len(trackers)
    /\ \A t \in 1..Len(trackers) :
          IsPrefix(trackers[t].comments, trackers'[t].comments)

\* C14: duplicate tracking issues are tolerated.  Overlapping runs create at
\* most one tracking issue each; once there are two, a check that looks the
\* issue up takes the first one listed and creates none, no check raises,
\* the issue a check holds stays there, and no step removes or changes a
\* comment already written
C14_DuplicateTolerated ==
    [][/\ LedgerKept
       /\ \A p \in Procs :
             /\ ~loc[p].raised /\ ~loc'[p].raised
             /\ (Checking(p) /\ pc[p] \notin {"lookup", "create"}) =>
                    loc[p].tracker \in 1..Len(trackers)
             /\ (Len(trackers) = 2 /\ pc[p] = "lookup" /\ pc'[p] # "lookup") =>
                    /\ pc'[p] = "read"
                    /\ loc'[p].tracker = FirstListed(trackers)
                    /\ Len(trackers') = 2]_vars

\* two runs created a tracking issue each and wrote their records to their
\* own; a later check looked up the first one listed, counted only the
\* record on it and was the third allowed of a key with limit 2
C14_Witness ==
    \E p \in Procs, K \in Keys :
        /\ Len(trackers) = 2
        /\ Len(trackers[1].comments) = 1
        /\ MeteredReturn(p) /\ loc[p].allowed
        /\ loc[p].calls = <<"get_issues", "get_comments", "get_comments", "create_comment">>
        /\ loc[p].tracker = FirstListed(trackers)
        /\ K = KeyOf(loc[p], loc[p].today) /\ LimitOfKey(K) = 2 /\ hist[K] = 3
        /\ ReasonIs(loc[p], "Usage", 2, 2)

----------------------------------------------------------------------------
(* What a denied run tells the actor *)

\* C15: a run whose check returned deny has, when it exits, posted a notice
\* addressed to the actor that cites the current/limit of the reason
C15_DenyExplained ==
    \A p \in Procs :
        LET l == loc[p] IN
        (pc[p] = "exit" /\ l.returned /\ ~l.allowed) =>
            \E i \in 1..Len(l.posts) :
                /\ l.posts[i].what = "limit notice"
                /\ l.posts[i].to = l.user
                /\ l.posts[i].reason = l.reason

----------------------------------------------------------------------------
(* Configuration *)

\* C16: a configuration file that is missing or cannot be read never fails
\* the run: no run raises, every run goes on with the defaults
C16_ConfigNeverFails ==
    \A p \in Procs :
        (pc[p] # "idle" /\ (~file.found \/ ~file.readable)) =>
            /\ ~loc[p].raised
            /\ loc[p].code = 0

\* the defaults the documentation gives
DocumentedDefault ==
    ("issues_per_user_per_day" :> 3) @@ ("mentions_per_user_per_day" :> 10)
        @@ ("reviews_per_day" :> 20) @@ ("exempt_team_members" :> TRUE)
        @@ ("auto_implement_team_member_issues" :> TRUE)
        @@ ("auto_implement_external_issues" :> FALSE)

\* the value the file states for a key, if it states one
States(key) ==
    /\ file.found /\ file.readable
    /\ CASE key \in RateLimitKeys -> key \in DOMAIN file.yaml.rate_limits
         [] key \in AutoImplementKeys ->
               /\ "issue_evaluation" \in DOMAIN file.yaml.top
               /\ key \in DOMAIN file.yaml.top["issue_evaluation"]
         [] OTHER -> key \in DOMAIN file.yaml.top

Stated(key) ==
    CASE key \in RateLimitKeys -> file.yaml.rate_limits[key]
      [] key \in AutoImplementKeys -> file.yaml.top["issue_evaluation"][key]
      [] OTHER -> file.yaml.top[key]

Resolved(key) == IF States(key) THEN Stated(key) ELSE DocumentedDefault[key]

LimitKey(entry) ==
    CASE entry = "issue" -> "issues_per_user_per_day"
      [] entry = "mention" -> "mentions_per_user_per_day"
      [] entry = "review" -> "reviews_per_day"

ExemptReturn(l) == l.returned /\ ReasonIs(l, "Team member - no limits", 0, 0)

\* the run came to the part of its check that reads the limit
ReadLimit(p) ==
    /\ InCheck(p) /\ ~loc[p].raised
    /\ ~ExemptReturn(loc[p])

\* C17: every key resolves on its own: the check uses the stated value of
\* its limit key and of exempt_team_members when the file states it and the
\* documented default when it does not, and should_auto_implement does the
\* same with the key of the actor's role
C17_PerKeyDefaults ==
    \A p \in Procs :
        LET l == loc[p] IN
        /\ (InCheck(p) /\ ~l.raised /\ l.entry \in {"issue", "mention"}) =>
              (ExemptReturn(l) <=>
                  (Resolved("exempt_team_members") /\ l.role \in TeamRoles))
        /\ ReadLimit(p) =>
              IF Resolved(LimitKey(l.entry)) = 0
              THEN l.returned /\ ReasonIs(l, "No limit configured", 0, 0)
              ELSE l.limit = Resolved(LimitKey(l.entry))
        /\ l.asked =>
              (l.should_implement <=>
                  Resolved(IF l.role \in TeamRoles
                           THEN "auto_implement_team_member_issues"
                           ELSE "auto_implement_external_issues"))

\* the file states the mention limit and the external auto-implementation
\* only: the issue of an author without a team role is metered with the
\* default limit of 3, and its plan is implemented because the file says so
C17_Witness ==
    \E p \in Procs :
        LET l == loc[p] IN
        /\ file = [found |-> TRUE, readable |-> TRUE,
                   yaml |-> DocumentWith({"mentions_per_user_per_day",
                                          "auto_implement_external_issues"})]
        /\ l.entry = "issue" /\ l.role = "NONE" /\ l.limit = 3
        /\ ReasonIs(l, "Usage", 1, 3)
        /\ l.asked /\ l.should_implement

\* C18: should_auto_implement answers with auto_implement_team_member_issues
\* (default true) for OWNER, MEMBER and COLLABORATOR and with
\* auto_implement_external_issues (default false) for every other role; the
\* step that asks it makes no call to the platform's ledger and leaves the
\* tracking issues as they are
C18_AutoImplementGate ==
    [][\A p \in Procs :
          (~loc[p].asked /\ loc'[p].asked) =>
              /\ loc'[p].should_implement =
                    IF loc[p].role \in TeamRoles
                    THEN Resolved("auto_implement_team_member_issues")
                    ELSE Resolved("auto_implement_external_issues")
              /\ trackers' = trackers
              /\ loc'[p].calls = loc[p].calls
              /\ loc'[p].appended = loc[p].appended]_vars

\* a COLLABORATOR's implementable issue is not implemented because the file
\* turns auto_implement_team_member_issues off
C18_Witness ==
    \E p \in Procs :
        /\ States("auto_implement_team_member_issues")
        /\ ~States("auto_implement_external_issues")
        /\ loc[p].role = "COLLABORATOR"
        /\ loc[p].asked /\ ~loc[p].should_implement

----------------------------------------------------------------------------
(* Counts in append order; the exemption *)

\* C19: with runs one after another, the records of a key stand on the
\* tracking issue with the counts 1, 2, 3, ... in append order (keys that
\* hold a record of a check during which the day changed are left out)
C19_CountsGrow ==
    \A t \in 1..Len(trackers) :
        LET c == trackers[t].comments
            KeyAt(i) == <<c[i][5], c[i][7], c[i][3]>>
        IN  \A i \in 1..Len(c) :
                KeyAt(i) \notin carried =>
                    c[i] = UsageComment(c[i][3], c[i][5], c[i][7],
                               Cardinality({j \in 1..i : KeyAt(j) = KeyAt(i)}))

\* two records of one key, written by two runs of the day
C19_Witness ==
    \E K \in Keys \ carried :
        /\ Len(trackers) = 1
        /\ RecordCounts(trackers[1].comments, K[3], K[1], K[2]) = <<1, 2>>
        /\ hist[K] = 2

\* C20: the exemption needs the toggle and the role.  A check of an issue or
\* a mention returns the exempt allow exactly when exempt_team_members is on
\* and the role is OWNER, MEMBER or COLLABORATOR; every other check with a
\* limit above 0 is metered: an allow appends one record, and the check is
\* denied when L checks of the key were allowed
C20_ToggleAndRole ==
    \A p \in Procs :
        LET l == loc[p]
            K == KeyOf(l, l.today)
            L == ConfiguredLimit(l.entry)
        IN
        (l.entry \in {"issue", "mention"} /\ l.returned) =>
            /\ ExemptReturn(l) <=> (ExemptionOn /\ l.role \in TeamRoles)
            /\ (~ExemptReturn(l) /\ L > 0) =>
                  /\ MeteredReturn(p) \/ pc[p] \in {"post", "exit"}
                  /\ l.calls # <<>>
                  /\ l.allowed => Len(l.appended) = 1
                  /\ (~l.allowed /\ K \notin carried) =>
                        hist[K] = L /\ l.appended = <<>>

\* with the exemption off, the third mention of an OWNER on a day is denied
\* at the limit of 2
C20_Witness ==
    \E p \in Procs :
        LET l == loc[p] IN
        /\ ~ExemptionOn /\ l.role = "OWNER" /\ l.entry = "mention"
        /\ MeteredReturn(p) /\ ~l.allowed
        /\ ReasonIs(l, "Rate limit exceeded", 2, 2)
        /\ hist[KeyOf(l, l.today)] = 2

----------------------------------------------------------------------------
(* The values later checks see *)

\* the keys checks are made for: an actor's issue evaluations and mentions,
\* and the reviews of "system"
CheckedKeys ==
    {K \in Keys : IF K[2] = "review" THEN K[1] = SystemUser ELSE K[1] \in Users}

\* the value a check of key K would compare with its limit if it read the
\* ledger as it is in tracking issues ts
SnapshotIn(ts, today) ==
    IF ts = <<>> THEN EmptyDict ELSE ParseUsage(ts[FirstListed(ts)].comments, today)

ValueOf(usage, K) ==
    IF K[2] = "review" THEN TotalReviews(usage) ELSE UsageGet(usage, K[1], K[2])

ValueIn(ts, K) == ValueOf(SnapshotIn(ts, K[3]), K)

\* a check of key K that read the ledger in ts would be denied
WouldDeny(ts, K) == LimitOfKey(K) > 0 /\ ValueIn(ts, K) >= LimitOfKey(K)

\* C21: denial is stable.  No step lowers the value a check of a key sees,
\* so once a check of the key is denied, every check of the key and day
\* that reads the ledger later is denied too
C21_DenialStable ==
    [][\A K \in CheckedKeys :
          /\ ValueIn(trackers', K) >= ValueIn(trackers, K)
          /\ WouldDeny(trackers, K) => WouldDeny(trackers', K)]_vars

\* C22: every record on a tracking issue carries a count from 1 to the
\* limit of its operation
C22_CountWithinLimit ==
    \A t \in 1..Len(trackers) :
        LET c == trackers[t].comments IN
        \A i \in 1..Len(c) :
            \E n \in 1..LimitOfKey(<<c[i][5], c[i][7], c[i][3]>>) :
                c[i] = UsageComment(c[i][3], c[i][5], c[i][7], n)

----------------------------------------------------------------------------
(* The entry points around the check *)

Responses == {"reply", "plan", "plan only", "difficulties", "clarification"}

\* run p has posted one of the responses that are written with the AI's text
Responded(p) ==
    \E i \in 1..Len(loc[p].posts) : loc[p].posts[i].what \in Responses

\* C23: no response without an allow.  The AI service has been called only
\* in a run whose check returned allow, a response is posted only after
\* that call, and a run whose check returned deny or raised never calls it
C23_NoResponseWithoutAllow ==
    \A p \in Procs :
        LET l == loc[p] IN
        /\ l.ai => l.returned /\ l.allowed /\ ~l.raised
        /\ Responded(p) => l.ai
        /\ (l.returned /\ ~l.allowed) => ~l.ai /\ ~Responded(p)
        /\ pc[p] \in {"ai", "post"} => l.returned /\ l.allowed

\* a denied run is about to end: the AI service was not called, and all it
\* posted is the notice of the limit
C23_Witness ==
    \E p \in Procs :
        LET l == loc[p] IN
        /\ pc[p] = "exit" /\ l.returned /\ ~l.allowed /\ ~l.ai
        /\ l.entry = "issue"
        /\ Len(l.posts) = 1 /\ l.posts[1].what = "limit notice"

----------------------------------------------------------------------------
(* Keys do not mix *)

OperationOf(entry) ==
    CASE entry = "issue" -> "issue_eval"
      [] entry = "mention" -> "mention"
      [] entry = "review" -> "review"

\* the key the check of run p is made for, on the day the clock shows
CheckedKey(p) == <<loc[p].user, OperationOf(loc[p].entry), TodayKey(clock)>>

\* the records of key K among the comments c, by position
RecordsOf(c, K) ==
    {i \in 1..Len(c) :
        /\ Len(c[i]) >= 9 /\ c[i][1] = "USAGE:"
        /\ c[i][3] = K[3] /\ c[i][5] = K[1] /\ c[i][7] = K[2]}

\* the count of the last record of key K, 0 when there is none
LastCount(c, K) ==
    IF RecordsOf(c, K) = {} THEN 0
    ELSE LET m == CHOOSE i \in RecordsOf(c, K) : \A j \in RecordsOf(c, K) : j <= i
         IN  DigitsVal(SubSeq(c[m], 9, Len(c[m])))

RECURSIVE ReviewsOf(_, _, _)
ReviewsOf(users, c, today) ==
    IF users = {} THEN 0
    ELSE LET u == CHOOSE x \in users : TRUE
         IN  LastCount(c, <<u, "review", today>>) + ReviewsOf(users \ {u}, c, today)

\* what the records of the own key of a check give, all other records left
\* aside: the last count of the actor's operation, or the review counts
OwnValue(c, entry, user, today) ==
    IF entry = "review" THEN ReviewsOf(KeyUsers, c, today)
    ELSE LastCount(c, <<user, OperationOf(entry), today>>)

\* C24: key isolation.  The value a check compares with its limit is what
\* the records of its own key give (usage of another operation or another
\* actor counts for nothing, and only review records count for the review
\* total), and the one comment a check appends is a record of its own key
C24_KeyIsolation ==
    [][/\ \A p \in Procs :
             HoldsRead(p) =>
                 loc[p].current =
                     OwnValue(trackers[loc[p].tracker].comments, loc[p].entry,
                              loc[p].user, loc[p].today)
       /\ \A t \in 1..Len(trackers) :
             trackers'[t] # trackers[t] =>
                 \E p \in Procs, n \in CountRange :
                     /\ pc[p] = "append" /\ pc'[p] = "checked"
                     /\ trackers'[t].comments =
                            Append(trackers[t].comments,
                                   UsageComment(CheckedKey(p)[3], CheckedKey(p)[1],
                                                CheckedKey(p)[2], n))]_vars

\* alice has used up her two mentions of the day, and her issue of the
\* same day is evaluated as the first of one
C24_Witness ==
    \E p \in Procs :
        LET l == loc[p] IN
        /\ MeteredReturn(p) /\ l.allowed
        /\ l.entry = "issue" /\ l.user = "alice"
        /\ ReasonIs(l, "Usage", 1, 1)
        /\ hist[<<"alice", "mention", l.today>>] = 2
        /\ ConfiguredLimit("mention") = 2

----------------------------------------------------------------------------
(* Paths that leave the ledger alone *)

\* the check of run p is one that the exemption or a zero limit decides
Bypasses(p) ==
    \/ /\ loc[p].entry \in {"issue", "mention"}
       /\ ExemptionOn /\ loc[p].role \in TeamRoles
    \/ /\ loc[p].entry \in Entries
       /\ ConfiguredLimit(loc[p].entry) = 0

\* C25: a check that the exemption or a zero limit decides makes no call to
\* the platform (no lookup, no creation, no read, no append), so no failing
\* call can reach it: it returns allow, and no step of the run changes a
\* tracking issue
C25_BypassTouchesNothing ==
    [][\A p \in Procs :
          /\ (InCheck(p) /\ Bypasses(p)) =>
                /\ loc[p].returned /\ loc[p].allowed /\ ~loc[p].raised
                /\ loc[p].calls = <<>> /\ loc[p].appended = <<>>
                /\ loc[p].reason.msg \in {"Team member - no limits", "No limit configured"}
          /\ (InCheck(p) /\ Bypasses(p) /\ loc'[p] # loc[p]) => trackers' = trackers]_vars

\* an exempt issue was evaluated and answered in a repository that has no
\* tracking issue, and none was created
C25_Witness ==
    \E p \in Procs :
        /\ loc[p].entry = "issue" /\ loc[p].role = "MEMBER" /\ ExemptionOn
        /\ ConfiguredLimit("issue") > 0
        /\ pc[p] = "exit" /\ loc[p].ai /\ Len(loc[p].posts) = 1
        /\ loc[p].calls = <<>>
        /\ trackers = <<>>

----------------------------------------------------------------------------
(* Order of the admission steps of a code review *)

\* review p left at the draft test or at the skip-label test
SkippedEarly(p) ==
    /\ loc[p].entry = "review" /\ pc[p] = "exit"
    /\ ~loc[p].returned /\ ~loc[p].raised

\* review p left at the test of the number of changed files
SkippedOnFiles(p) ==
    /\ loc[p].entry = "review" /\ pc[p] = "exit"
    /\ loc[p].returned /\ loc[p].allowed /\ ~loc[p].ai

\* C26: a review skipped for a draft or for the skip label has run no check
\* (no call to the ledger, no record, no comment); a review skipped for its
\* number of changed files was checked before, so under a positive limit it
\* has appended its record, and the AI was not called
C26_ReviewStepOrder ==
    \A p \in Procs :
        /\ SkippedEarly(p) =>
              /\ loc[p].calls = <<>> /\ loc[p].appended = <<>>
              /\ loc[p].posts = <<>>
        /\ (SkippedOnFiles(p) /\ ConfiguredLimit("review") > 0) =>
              /\ Len(loc[p].appended) = 1
              /\ loc[p].reason.msg = "Usage"
              /\ \A i \in 1..Len(loc[p].posts) : loc[p].posts[i].what = "too many files"
        /\ (loc[p].entry = "review" /\ pc[p] \in {"ai", "post"}) =>
              loc[p].returned /\ loc[p].allowed

\* a review of too many files was skipped with a notice after its record
\* was appended
C26_Witness ==
    \E p \in Procs :
        /\ SkippedOnFiles(p)
        /\ ConfiguredLimit("review") > 0
        /\ Len(loc[p].posts) = 1 /\ loc[p].posts[1].what = "too many files"
        /\ Len(loc[p].appended) = 1
        /\ loc[p].new_count = 1

----------------------------------------------------------------------------
(* Plan-only path of the issue evaluator *)

\* run p evaluated an implementable issue for an author whom
\* should_auto_implement refused, and has ended
PlanOnlyEnded(p) ==
    /\ loc[p].entry = "issue" /\ pc[p] = "exit"
    /\ loc[p].asked /\ ~loc[p].should_implement

\* C27: on the plan-only path the evaluator posts the plan-only comment and
\* nothing else (no implementation attempt, no follow-up about
\* difficulties), and the invocation ends normally, with exit code 0
C27_PlanOnlyNormal ==
    \A p \in Procs :
        PlanOnlyEnded(p) =>
            /\ Len(loc[p].posts) = 1 /\ loc[p].posts[1].what = "plan only"
            /\ ~loc[p].crashed
            /\ loc[p].code = 0

=============================================================================
